---- MODULE Spec2Model ----
(***************************************************************************)
(* Model of src/main.py: the Coda workspace client, the aggregation pass   *)
(* with its emptiness filter, the formatter, the two module-level cache    *)
(* fields and the four request handlers built on them.                     *)
(*                                                                         *)
(* Python's None is the empty tuple <<>> and a set cache field holding x   *)
(* is the one-element tuple <<x>>, so a cached empty list << <<>> >> is    *)
(* still a set field, as it is under "is not None".                        *)
(***************************************************************************)
EXTENDS Integers, Sequences, FiniteSets, TLC

VARIABLES
    coda_data_cache,        \* main.py:109  None or the cached aggregation
    formatted_data_cache,   \* main.py:110  None or the cached text
    upstream,               \* the workspace content an aggregator call reads
    passResult,             \* outcome of the last direct aggregator call
    last,                   \* the response of the last completed handler call
    fmtLog                  \* (argument, returned text) pairs of formatter calls

vars == <<coda_data_cache, formatted_data_cache, upstream, passResult, last,
          fmtLog>>

(***************************************************************************)
(* Bounds of the model.                                                    *)
(***************************************************************************)
MaxPages == 2
MaxTables == 2
MaxCells == 2
MaxDocs == 2

None == <<>>
Some(x) == <<x>>
IsSet(c) == c # None
Val(c) == c[1]

(***************************************************************************)
(* Cell values.  A cell carries one of these shapes (JSON values of the    *)
(* rows endpoint); each is named by a tag.                                 *)
(***************************************************************************)
PyNone == "None"
PyEmptyStr == "''"
PyFalse == "False"
PyStrFalse == "'False'"
PyZero == "0"
PyEmptyList == "[]"
PyEmptyDict == "{}"
PyOne == "1"
PyTrue == "True"
PyStrA == "'A'"

CellValues == {PyNone, PyEmptyStr, PyFalse, PyStrFalse, PyZero, PyEmptyList,
               PyEmptyDict, PyOne, PyTrue, PyStrA}

\* Python's == between two cell values: equal shapes, and the numeric
\* identifications 0 == False and 1 == True.
PyEq(a, b) ==
    \/ a = b
    \/ {a, b} = {PyZero, PyFalse}
    \/ {a, b} = {PyOne, PyTrue}

\* bool(v)
Truthy(v) == v \in {PyStrFalse, PyOne, PyTrue, PyStrA}

\* str(v), as an f-string renders it
PyStr(v) ==
    CASE v = PyNone -> "None"
      [] v = PyEmptyStr -> ""
      [] v = PyFalse -> "False"
      [] v = PyStrFalse -> "False"
      [] v = PyZero -> "0"
      [] v = PyEmptyList -> "[]"
      [] v = PyEmptyDict -> "{}"
      [] v = PyOne -> "1"
      [] v = PyTrue -> "True"
      [] v = PyStrA -> "A"

\* the literal list [None, "", False, "False"] of main.py:144 and :183
EmptyLiterals == <<PyNone, PyEmptyStr, PyFalse, PyStrFalse>>

\* v in [None, "", False, "False"]: list membership compares with ==
InEmptyLiterals(v) == \E i \in 1..Len(EmptyLiterals) : PyEq(v, EmptyLiterals[i])

(***************************************************************************)
(* Dictionaries keep insertion order: a dict is a sequence of <<key,       *)
(* value>> pairs with distinct keys.                                       *)
(***************************************************************************)
DictHas(d, k) == \E i \in 1..Len(d) : d[i][1] = k
DictGet(d, k, default) ==
    IF DictHas(d, k) THEN d[CHOOSE i \in 1..Len(d) : d[i][1] = k][2] ELSE default
DictSet(d, k, v) ==
    IF DictHas(d, k)
    THEN [i \in 1..Len(d) |-> IF d[i][1] = k THEN <<k, v>> ELSE d[i]]
    ELSE Append(d, <<k, v>>)
DictKeys(d) == [i \in 1..Len(d) |-> d[i][1]]
DictValues(d) == [i \in 1..Len(d) |-> d[i][2]]

(***************************************************************************)
(* The workspace as the client sees it.  A world is what the listing       *)
(* endpoints answer for the resolved document:                             *)
(*   pagesFault     the pages call raises                                  *)
(*   pages          the page records, in the order returned                *)
(*   tablesFaultAt  k > 0: the k-th tables call of a pass raises           *)
(*   tables         the document's table records, in the order returned;   *)
(*                  fetch says whether the table's columns or rows call    *)
(*                  raises                                                 *)
(***************************************************************************)
PageNames == <<"P1", "P2", "P3", "P4">>
TableNames == <<"T1", "T2", "T3", "T4">>

Page(i) == [id |-> i, name |-> PageNames[i]]

Fault == [fault |-> TRUE, items |-> <<>>]
Items(xs) == [fault |-> FALSE, items |-> xs]

\* main.py:71-74
get_pages(w) == IF w.pagesFault THEN Fault ELSE Items(w.pages)

\* main.py:76-86; callNo is the number of this tables call within the pass
get_tables_created_on_page(w, page_id, callNo) ==
    IF w.tablesFaultAt = callNo
    THEN Fault
    ELSE Items(SelectSeq(w.tables, LAMBDA t : t.parent = page_id))

\* main.py:88-92
get_column_map(table) ==
    IF table.fetch = "cols_fault" THEN Fault ELSE Items(table.cols)

\* main.py:101-104: one row with its column ids rewritten to names
RECURSIVE CleanRow(_, _, _, _)
CleanRow(values, colmap, i, clean) ==
    IF i > Len(values) THEN clean
    ELSE CleanRow(values, colmap, i + 1,
                  DictSet(clean, DictGet(colmap, values[i][1], values[i][1]),
                          values[i][2]))

\* main.py:94-106
get_rows(table, colmap) ==
    IF table.fetch = "rows_fault" THEN Fault
    ELSE Items([i \in 1..Len(table.rows) |->
                    CleanRow(table.rows[i], colmap, 1, <<>>)])

\* main.py:144
has_data(r) ==
    \E i \in 1..Len(r) : ~InEmptyLiterals(r[i][2]) /\ Truthy(r[i][2])

\* the filter left out: every row kept
filter_rows_keep_all(rows) == rows

\* main.py:142-146
filter_rows(rows) == SelectSeq(rows, has_data)

\* the per-table handler ending the loop (break) where the code continues
RECURSIVE TablesLoop_break(_, _, _, _)
TablesLoop_break(tables, i, acc, calls) ==
    IF i > Len(tables) THEN [tables |-> acc, calls |-> calls]
    ELSE
      LET table == tables[i]
          cm == get_column_map(table)
          rs == get_rows(table, cm.items)
          filtered_rows == filter_rows(rs.items)
          table_data == [table_name |-> table.name,
                         columns |-> DictKeys(filtered_rows[1]),
                         rows |-> filtered_rows]
      IN  IF cm.fault
          THEN [tables |-> acc, calls |-> calls \cup {"columns"}]
          ELSE IF rs.fault
          THEN [tables |-> acc, calls |-> calls \cup {"columns", "rows"}]
          ELSE IF filtered_rows # <<>>
          THEN TablesLoop_break(tables, i + 1, Append(acc, table_data),
                                calls \cup {"columns", "rows"})
          ELSE TablesLoop_break(tables, i + 1, acc,
                                calls \cup {"columns", "rows"})

\* main.py:133-158: the loop over one page's tables.  acc is
\* page_data["tables"] so far, calls the endpoints contacted so far.
RECURSIVE TablesLoop(_, _, _, _)
TablesLoop(tables, i, acc, calls) ==
    IF i > Len(tables) THEN [tables |-> acc, calls |-> calls]
    ELSE
      LET table == tables[i]
          cm == get_column_map(table)
          rs == get_rows(table, cm.items)
          filtered_rows == filter_rows(rs.items)
          table_data == [table_name |-> table.name,
                         columns |-> DictKeys(filtered_rows[1]),
                         rows |-> filtered_rows]
      IN  IF cm.fault
          THEN TablesLoop(tables, i + 1, acc, calls \cup {"columns"})
          ELSE IF rs.fault
          THEN TablesLoop(tables, i + 1, acc, calls \cup {"columns", "rows"})
          ELSE IF filtered_rows # <<>>
          THEN TablesLoop(tables, i + 1, Append(acc, table_data),
                          calls \cup {"columns", "rows"})
          ELSE TablesLoop(tables, i + 1, acc, calls \cup {"columns", "rows"})

RECURSIVE PagesLoop(_, _, _, _)

\* main.py:160-161: the page joins the result if a table of it survived,
\* and the loop goes on with the next page
AppendPage(w, i, all_data, page, done) ==
    PagesLoop(w, i + 1,
              IF done.tables # <<>>
              THEN Append(all_data, [page_name |-> page.name,
                                     tables |-> done.tables])
              ELSE all_data,
              done.calls)

\* main.py:122-161: the loop over the pages.  A fault of the tables call is
\* outside the per-table try and ends the pass.
PagesLoop(w, i, all_data, calls) ==
    IF i > Len(w.pages)
    THEN [fault |-> FALSE, data |-> all_data, calls |-> calls]
    ELSE
      LET page == w.pages[i]
          tables == get_tables_created_on_page(w, page.id, i)
      IN  IF tables.fault
          THEN [fault |-> TRUE, data |-> <<>>, calls |-> calls \cup {"tables"}]
          ELSE AppendPage(w, i, all_data, page,
                          TablesLoop(tables.items, 1, <<>>,
                                     calls \cup {"tables"}))

\* main.py:119-162: the aggregation pass run on a cache miss
AggregationPass(w) ==
    IF get_pages(w).fault
    THEN [fault |-> TRUE, data |-> <<>>, calls |-> {"pages"}]
    ELSE PagesLoop(w, 1, <<>>, {"pages"})

\* main.py:163-164: the result p of a pass is stored and returned (a pass
\* that raised stores nothing)
StorePass(c, p) ==
    [fault |-> p.fault, data |-> p.data,
     cache |-> IF p.fault THEN c ELSE Some(p.data), calls |-> p.calls]

\* the cache check of lines 116-117 left out: every call runs a pass
get_all_coda_data_always_fetches(c, w) == StorePass(c, AggregationPass(w))

\* main.py:112-164: get_all_coda_data against cache field c.  Gives the
\* value returned (or the fault raised), the cache field afterwards and the
\* endpoints contacted.
get_all_coda_data(c, w) ==
    IF IsSet(c)
    THEN [fault |-> FALSE, data |-> Val(c), cache |-> c, calls |-> {}]
    ELSE StorePass(c, AggregationPass(w))

(***************************************************************************)
(* The formatter.  A text is the sequence of the string pieces the code    *)
(* concatenates.                                                           *)
(***************************************************************************)
RECURSIVE Join(_, _)
Join(pieces, sep) ==
    IF pieces = <<>> THEN <<>>
    ELSE IF Len(pieces) = 1 THEN pieces[1]
    ELSE pieces[1] \o <<sep>> \o Join(Tail(pieces), sep)

RECURSIVE Concat(_)
Concat(texts) == IF texts = <<>> THEN <<>> ELSE texts[1] \o Concat(Tail(texts))

\* str(i) of a row number
IntStr == <<"1", "2", "3", "4", "5", "6", "7", "8", "9">>

\* main.py:183: the "k: v" pairs of the values outside the literal list
RowText(row) ==
    LET shown == SelectSeq(row, LAMBDA kv : ~InEmptyLiterals(kv[2]))
    IN  Join([i \in 1..Len(shown) |-> <<shown[i][1], ": ", PyStr(shown[i][2])>>],
             " | ")

\* main.py:179-186
TableText(table) ==
    <<"\nTABLE: ", table.table_name, "\n", "Columns: ">>
    \o Join([i \in 1..Len(table.columns) |-> <<table.columns[i]>>], ", ")
    \o <<"\n">>
    \o Concat([i \in 1..Len(table.rows) |->
                  <<IntStr[i], ". ">> \o RowText(table.rows[i]) \o <<"\n">>])
    \o <<"\n">>

\* main.py:176-186
PageText(page) ==
    <<"=== PAGE: ", page.page_name, " ===\n">>
    \o Concat([j \in 1..Len(page.tables) |-> TableText(page.tables[j])])

\* main.py:173-186: the text built from the argument
Render(coda_data) ==
    <<"CODA DOCUMENT DATA:\n\n">>
    \o Concat([i \in 1..Len(coda_data) |-> PageText(coda_data[i])])

\* main.py:166-189: format_data_for_gemini against cache field c.  Gives
\* the text returned and the cache field afterwards.
format_data_for_gemini(c, coda_data) ==
    IF IsSet(c)
    THEN [text |-> Val(c), cache |-> c]
    ELSE [text |-> Render(coda_data), cache |-> Some(Render(coda_data))]

(***************************************************************************)
(* Document resolution.                                                    *)
(***************************************************************************)
DocName == "samdanielvincy's Coda Playground"         \* main.py:249
UpperDocName == " SAMDANIELVINCY'S CODA PLAYGROUND "
OtherDocName == "Budget 2024"
DocIds == <<"d1", "d2", "d3", "d4">>

\* name.strip().lower() on the names of the model
StripLower(n) ==
    CASE n = DocName -> "samdanielvincy's coda playground"
      [] n = UpperDocName -> "samdanielvincy's coda playground"
      [] n = OtherDocName -> "budget 2024"

\* main.py:60-63: the documents call raises, or gives the document records
get_all_docs(docs) == docs

\* main.py:65-69: the id of the first document of that name, or None
resolve_doc_id(docs, doc_name) ==
    LET ds == get_all_docs(docs)
        hits == {i \in 1..Len(ds.items) :
                   StripLower(ds.items[i].name) = StripLower(doc_name)}
    IN  IF ds.fault THEN [fault |-> TRUE, id |-> None]
        ELSE IF hits = {} THEN [fault |-> FALSE, id |-> None]
        ELSE [fault |-> FALSE,
              id |-> Some(ds.items[CHOOSE i \in hits : \A j \in hits : i <= j].id)]

\* the document listings: the call raising, and every list of up to MaxDocs
\* documents
DocLists ==
    {Fault}
    \cup UNION {{Items([i \in 1..n |-> [id |-> DocIds[i], name |-> f[i]]]) :
                   f \in [1..n -> {UpperDocName, OtherDocName}]} :
                n \in 0..MaxDocs}

(***************************************************************************)
(* The answer engine.                                                      *)
(***************************************************************************)
EngineOutcomes == {"answer", "fault"}

\* main.py:194-227: the model's text, or the error string the except
\* clause returns in its place; never raises
ask_gemini_about_data(context_data, g) ==
    IF g = "fault" THEN "error_string" ELSE "answer"

(***************************************************************************)
(* The worlds the calls are run against.                                   *)
(***************************************************************************)
PageIds == 1..MaxPages

\* every order of every choice of distinct pages
PageLists ==
    UNION {{[i \in 1..n |-> Page(f[i])] :
              f \in {g \in [1..n -> PageIds] :
                       \A a, b \in 1..n : a # b => g[a] # g[b]}} :
           n \in 0..MaxPages}

\* the columns and rows of the tables: Name and Qty, as in the spec's example
NameQty == << <<"c1", "Name">>, <<"c2", "Qty">> >>
rBlank == << <<"c1", PyEmptyStr>>, <<"c2", PyEmptyStr>> >>
rA == << <<"c1", PyStrA>>, <<"c2", PyOne>> >>
rB == << <<"c1", PyStrA>>, <<"c2", PyNone>> >>
RowLists == {<<rBlank>>, <<rA, rBlank>>, <<rB, rA>>}
MixedRows == <<rB, rBlank, rA>>

TableRec(i, p, f, rl) ==
    [id |-> i, name |-> TableNames[i], parent |-> p, fetch |-> f,
     cols |-> NameQty, rows |-> rl]

\* table i: under any page, its columns or its rows call raising, or both
\* succeeding with one of the row lists rls
TableChoices(i, rls) ==
    {TableRec(i, p, f, <<>>) : p \in PageIds, f \in {"cols_fault", "rows_fault"}}
    \cup {TableRec(i, p, "ok", rl) : p \in PageIds, rl \in rls}

RECURSIVE TableListsOfLen(_, _)
TableListsOfLen(n, rls) ==
    IF n = 0 THEN {<<>>}
    ELSE {Append(l, t) : l \in TableListsOfLen(n - 1, rls),
                         t \in TableChoices(n, rls)}

TableLists == UNION {TableListsOfLen(n, {MixedRows}) : n \in 0..MaxTables}

World(pf, pl, k, tl) ==
    [pagesFault |-> pf, pages |-> pl, tablesFaultAt |-> k, tables |-> tl]

PagesFaultWorld == World(TRUE, <<>>, 0, <<>>)

\* the worlds of at most one page and one table, with every row list
Snapshots ==
    {PagesFaultWorld}
    \cup UNION {{World(FALSE, pl, k, tl) :
                   k \in 0..Len(pl),
                   tl \in TableListsOfLen(0, RowLists)
                          \cup TableListsOfLen(1, RowLists)} :
                pl \in {l \in PageLists : Len(l) <= 1}}

\* one page holding one table with one row of up to MaxCells cells of every
\* shape; only the first column id has a name
ColIds == <<"c1", "c2", "c3", "c4">>
OnlyName == << <<"c1", "Name">> >>
CellRows ==
    UNION {{[i \in 1..n |-> <<ColIds[i], f[i]>>] : f \in [1..n -> CellValues]} :
           n \in 0..MaxCells}
RowWorlds ==
    {World(FALSE, <<Page(1)>>, 0,
           <<[id |-> 1, name |-> TableNames[1], parent |-> 1, fetch |-> "ok",
              cols |-> OnlyName, rows |-> <<r>>]>>) : r \in CellRows}


(***************************************************************************)
(* Direct calls of the aggregator: every world, from an empty cache.       *)
(***************************************************************************)
NoPass == [called |-> FALSE, fault |-> FALSE, data |-> <<>>, calls |-> {}]
NoResponse ==
    [handler |-> "none", status |-> 0, cause |-> "none", body |-> "none",
     color |-> "none", context |-> None, calls |-> {}, built |-> None,
     summary |-> None, warm |-> FALSE,
     prevRefreshed |-> FALSE, prevWarm |-> FALSE, prevBuilt |-> None]

InitAgg ==
    /\ coda_data_cache = None
    /\ formatted_data_cache = None
    /\ \/ upstream \in Snapshots
       \/ upstream \in RowWorlds
       \/ \E pl \in PageLists : \E k \in 0..Len(pl) : \E tl \in TableLists :
             upstream = World(FALSE, pl, k, tl)
    /\ passResult = NoPass
    /\ last = NoResponse
    /\ fmtLog = {}

\* get_all_coda_data(doc_id) called on the world in upstream
CallAggregator ==
    LET r == get_all_coda_data(coda_data_cache, upstream)
    IN  /\ coda_data_cache' = r.cache
        /\ passResult' = [called |-> TRUE, fault |-> r.fault, data |-> r.data,
                          calls |-> r.calls]
        /\ UNCHANGED <<formatted_data_cache, upstream, last, fmtLog>>

NextAgg == CallAggregator

SpecAgg == InitAgg /\ [][NextAgg]_vars

(***************************************************************************)
(* Claims about the aggregation pass (SpecAgg).                            *)
(***************************************************************************)
\* the four values the spec's emptiness rule names
SpecEmptyValues == {PyNone, PyEmptyStr, PyFalse, PyStrFalse}
SpecNonEmptyRow(r) == \E i \in 1..Len(r) : r[i][2] \notin SpecEmptyValues

\* the tables of the world that belong to a listed page
Listed(w, t) == \E i \in 1..Len(w.pages) : w.pages[i].id = t.parent
ListedTables(w) == {w.tables[i] : i \in {j \in 1..Len(w.tables) : Listed(w, w.tables[j])}}

\* the rows the aggregation holds for the table of that name
AllTables(data) ==
    UNION {{data[i].tables[j] : j \in 1..Len(data[i].tables)} : i \in 1..Len(data)}
TablesNamed(data, n) == {td \in AllTables(data) : td.table_name = n}
ResultRows(data, n) ==
    IF TablesNamed(data, n) = {} THEN <<>>
    ELSE (CHOOSE td \in TablesNamed(data, n) : TRUE).rows

\* the rows of an upstream table as the client returns them
ReturnedRows(t) == get_rows(t, t.cols).items

\* a pass ran in the last aggregator call (the cache was unset)
PassRan == passResult.called /\ passResult.calls # {}

\* C2: every row returned for a table is retained iff at least one of its
\* values is not None, "", False or "False" (0, [] and {} count as data).
C2_RetainedIffNonEmptyValue ==
    (PassRan /\ ~passResult.fault) =>
        \A t \in ListedTables(upstream) :
            t.fetch = "ok" =>
                ResultRows(passResult.data, t.name)
                    = SelectSeq(ReturnedRows(t), SpecNonEmptyRow)

\* C4 as claimed: when the pages call succeeds the pass completes and stores
\* a result, whichever table-level call faults, and the healthy tables keep
\* their surviving rows.
C4_AnyTableStepFaultOnlyOmits ==
    (PassRan /\ ~upstream.pagesFault) =>
        /\ ~passResult.fault
        /\ coda_data_cache = Some(passResult.data)

\* C4 as amended: with the pages call succeeding, a fault of a table's
\* columns or rows call omits that table only and the pass stores a result
\* holding the surviving rows of every other listed table; a fault of a
\* page's tables call ends the pass with nothing stored.
C4_ColumnRowFaultsOnlyOmit ==
    (PassRan /\ ~upstream.pagesFault) =>
        IF upstream.tablesFaultAt = 0
        THEN /\ ~passResult.fault
             /\ coda_data_cache = Some(passResult.data)
             /\ \A t \in ListedTables(upstream) :
                    ResultRows(passResult.data, t.name)
                        = IF t.fetch = "ok"
                          THEN SelectSeq(ReturnedRows(t), has_data)
                          ELSE <<>>
        ELSE passResult.fault /\ coda_data_cache = None

\* C4 witness: a pass that met a faulting table and kept another table
C4_Witness ==
    /\ PassRan /\ ~passResult.fault
    /\ \E t \in ListedTables(upstream) : t.fetch # "ok"
    /\ \E t \in ListedTables(upstream) :
           t.fetch = "ok" /\ ResultRows(passResult.data, t.name) # <<>>

PagePos(w, n) == CHOOSE k \in 1..Len(w.pages) : w.pages[k].name = n
TablePos(w, n) == CHOOSE k \in 1..Len(w.tables) : w.tables[k].name = n

\* C9: a set aggregation cache holds only pages with a table, only tables
\* with a row, only rows with a value outside the empty set, and pages and
\* tables in the order the client returned them.
C9_CacheShape ==
    IsSet(coda_data_cache) =>
        LET data == Val(coda_data_cache)
        IN  /\ \A i \in 1..Len(data) :
                 /\ data[i].tables # <<>>
                 /\ \A j \in 1..Len(data[i].tables) :
                      /\ data[i].tables[j].rows # <<>>
                      /\ \A k \in 1..Len(data[i].tables[j].rows) :
                             SpecNonEmptyRow(data[i].tables[j].rows[k])
                 /\ \A j1, j2 \in 1..Len(data[i].tables) :
                        j1 < j2 =>
                            TablePos(upstream, data[i].tables[j1].table_name)
                              < TablePos(upstream, data[i].tables[j2].table_name)
            /\ \A i1, i2 \in 1..Len(data) :
                   i1 < i2 => PagePos(upstream, data[i1].page_name)
                                < PagePos(upstream, data[i2].page_name)

\* C9 witness: a cached aggregation of two pages that the client returned
\* in the order P2, P1, each with a table whose blank row was filtered out
C9_Witness ==
    /\ IsSet(coda_data_cache)
    /\ Len(Val(coda_data_cache)) = 2
    /\ Val(coda_data_cache)[1].page_name = "P2"

\* C9 witness, second case: a page with two tables, and a listed table left out
C9_WitnessOmitted ==
    /\ IsSet(coda_data_cache)
    /\ \E t \in ListedTables(upstream) :
           ResultRows(Val(coda_data_cache), t.name) = <<>>
    /\ Len(Val(coda_data_cache)) = 1

(***************************************************************************)
(* The request handlers.  Each operator gives the outcome of one whole     *)
(* call from cache fields cc and fc: the cache fields afterwards and the   *)
(* response.                                                               *)
(*   status   the HTTP status of the response                              *)
(*   cause    what the call met: none, empty_text, not_found, client_fault *)
(*            (a fault of the workspace client or of the pass),            *)
(*            engine_fault                                                 *)
(*   body     the payload's kind                                           *)
(*   color    the color field of a webhook payload                         *)
(*   context  the text handed to the answer engine, None if it was not     *)
(*            called                                                       *)
(*   calls    the workspace endpoints contacted                            *)
(*   built    the aggregation a pass of this call built, None without one  *)
(*   summary  the three totals of a data summary                           *)
(***************************************************************************)
HTTP_OK == 200
HTTP_NOT_FOUND == 404
HTTP_ERROR == 500
ErrorColor == "#FF0000"
SuccessColor == "#4CAF50"

Outcome(cc, fc, status, cause, body, color, context, calls, built, summary) ==
    [coda |-> cc, fmt |-> fc, status |-> status, cause |-> cause,
     body |-> body, color |-> color, context |-> context, calls |-> calls,
     built |-> built, summary |-> summary]

Built(cc, agg) == IF IsSet(cc) THEN None ELSE Some(agg.data)

\* main.py:264-265 and 363-364: "except Exception" around the whole body
\* answers 500 whatever was raised, the HTTPException(404) of the body too
handler_except(raised_status) == HTTP_ERROR

\* main.py:248-265: the body of ask_question with the document resolved as
\* doc and get_all_coda_data answering agg
ask_question_try(cc, fc, doc, agg, g) ==
    LET f == format_data_for_gemini(fc, agg.data)
        answer == ask_gemini_about_data(f.text, g)
    IN  IF doc.fault
        THEN Outcome(cc, fc, handler_except(HTTP_ERROR), "client_fault", "error",
                     "none", None, {"docs"}, None, None)
        ELSE IF ~IsSet(doc.id)
        THEN Outcome(cc, fc, handler_except(HTTP_NOT_FOUND), "not_found",
                     "error", "none", None, {"docs"}, None, None)
        ELSE IF agg.fault
        THEN Outcome(agg.cache, fc, handler_except(HTTP_ERROR), "client_fault",
                     "error", "none", None, {"docs"} \cup agg.calls, None, None)
        ELSE Outcome(agg.cache, f.cache, HTTP_OK,
                     IF answer = "error_string" THEN "engine_fault" ELSE "none",
                     answer, "none", Some(f.text), {"docs"} \cup agg.calls,
                     Built(cc, agg), None)

\* main.py:245-265
ask_question(cc, fc, docs, w, g) ==
    ask_question_try(cc, fc, resolve_doc_id(docs, DocName),
                     get_all_coda_data(cc, w), g)

\* request.text.strip() on the texts of the model
CliqTexts == {"", "   ", "how many rows?"}
Strip(t) == IF t = "   " THEN "" ELSE t

\* the not-found branch answering with the success color
cliq_webhook_green_not_found(cc, fc, text, doc, agg, g) ==
    LET f == format_data_for_gemini(fc, agg.data)
        answer == ask_gemini_about_data(f.text, g)
    IN  IF Strip(text) = ""
        THEN Outcome(cc, fc, HTTP_OK, "empty_text", "usage", ErrorColor, None,
                     {}, None, None)
        ELSE IF doc.fault
        THEN Outcome(cc, fc, HTTP_OK, "client_fault", "error", ErrorColor,
                     None, {"docs"}, None, None)
        ELSE IF ~IsSet(doc.id)
        THEN Outcome(cc, fc, HTTP_OK, "not_found", "error", SuccessColor, None,
                     {"docs"}, None, None)
        ELSE IF agg.fault
        THEN Outcome(agg.cache, fc, HTTP_OK, "client_fault", "error",
                     ErrorColor, None, {"docs"} \cup agg.calls, None, None)
        ELSE Outcome(agg.cache, f.cache, HTTP_OK,
                     IF answer = "error_string" THEN "engine_fault" ELSE "none",
                     answer, SuccessColor, Some(f.text), {"docs"} \cup agg.calls,
                     Built(cc, agg), None)

\* main.py:270-305: the body of cliq_webhook with the document resolved as
\* doc and get_all_coda_data answering agg; every branch, the except clause
\* included, returns a {text, color} payload
cliq_webhook_try(cc, fc, text, doc, agg, g) ==
    LET f == format_data_for_gemini(fc, agg.data)
        answer == ask_gemini_about_data(f.text, g)
    IN  IF Strip(text) = ""
        THEN Outcome(cc, fc, HTTP_OK, "empty_text", "usage", ErrorColor, None,
                     {}, None, None)
        ELSE IF doc.fault
        THEN Outcome(cc, fc, HTTP_OK, "client_fault", "error", ErrorColor,
                     None, {"docs"}, None, None)
        ELSE IF ~IsSet(doc.id)
        THEN Outcome(cc, fc, HTTP_OK, "not_found", "error", ErrorColor, None,
                     {"docs"}, None, None)
        ELSE IF agg.fault
        THEN Outcome(agg.cache, fc, HTTP_OK, "client_fault", "error",
                     ErrorColor, None, {"docs"} \cup agg.calls, None, None)
        ELSE Outcome(agg.cache, f.cache, HTTP_OK,
                     IF answer = "error_string" THEN "engine_fault" ELSE "none",
                     answer, SuccessColor, Some(f.text), {"docs"} \cup agg.calls,
                     Built(cc, agg), None)

\* main.py:267-305
cliq_webhook(cc, fc, text, docs, w, g) ==
    cliq_webhook_try(cc, fc, text, resolve_doc_id(docs, DocName),
                     get_all_coda_data(cc, w), g)

\* main.py:314-321: refresh_cache after the two assignments of lines
\* 311-312 left the fields as cc and fc, with the document resolved as doc
\* and get_all_coda_data answering agg.  There is no try: the
\* HTTPException(404) reaches the caller and any other fault is a 500.
refresh_cache_rebuild(cc, fc, doc, agg) ==
    IF doc.fault
    THEN Outcome(cc, fc, HTTP_ERROR, "client_fault", "error", "none",
                 None, {"docs"}, None, None)
    ELSE IF ~IsSet(doc.id)
    THEN Outcome(cc, fc, HTTP_NOT_FOUND, "not_found", "error", "none",
                 None, {"docs"}, None, None)
    ELSE IF agg.fault
    THEN Outcome(cc, fc, HTTP_ERROR, "client_fault", "error", "none",
                 None, {"docs"} \cup agg.calls, None, None)
    ELSE Outcome(agg.cache, fc, HTTP_OK, "none", "refreshed", "none",
                 None, {"docs"} \cup agg.calls, Built(cc, agg), None)

\* line 311 left out: the aggregation survives the refresh
refresh_cache_keeps_aggregation(cc, fc, docs, w) ==
    refresh_cache_rebuild(cc, None, resolve_doc_id(docs, DocName),
                          get_all_coda_data(cc, w))

\* line 312 left out: the text survives the refresh
refresh_cache_keeps_text(cc, fc, docs, w) ==
    refresh_cache_rebuild(None, fc, resolve_doc_id(docs, DocName),
                          get_all_coda_data(None, w))

\* main.py:307-321: both fields are cleared, then the cache is rebuilt
refresh_cache(cc, fc, docs, w) ==
    refresh_cache_rebuild(None, None, resolve_doc_id(docs, DocName),
                          get_all_coda_data(None, w))

RECURSIVE Sum(_)
Sum(ns) == IF ns = <<>> THEN 0 ELSE ns[1] + Sum(Tail(ns))

\* main.py:335-337
Totals(coda_data) ==
    <<Len(coda_data),
      Sum([i \in 1..Len(coda_data) |-> Len(coda_data[i].tables)]),
      Sum([i \in 1..Len(coda_data) |->
             Sum([j \in 1..Len(coda_data[i].tables) |->
                    Len(coda_data[i].tables[j].rows)])])>>

\* main.py:326-364: the body of get_data_summary with the document
\* resolved as doc and get_all_coda_data answering agg
get_data_summary_try(cc, fc, doc, agg) ==
    IF doc.fault
    THEN Outcome(cc, fc, handler_except(HTTP_ERROR), "client_fault", "error",
                 "none", None, {"docs"}, None, None)
    ELSE IF ~IsSet(doc.id)
    THEN Outcome(cc, fc, handler_except(HTTP_NOT_FOUND), "not_found",
                 "error", "none", None, {"docs"}, None, None)
    ELSE IF agg.fault
    THEN Outcome(agg.cache, fc, handler_except(HTTP_ERROR), "client_fault",
                 "error", "none", None, {"docs"} \cup agg.calls, None, None)
    ELSE Outcome(agg.cache, fc, HTTP_OK, "none", "summary", "none", None,
                 {"docs"} \cup agg.calls, Built(cc, agg),
                 Some(Totals(agg.data)))

\* main.py:323-364
get_data_summary(cc, fc, docs, w) ==
    get_data_summary_try(cc, fc, resolve_doc_id(docs, DocName),
                         get_all_coda_data(cc, w))

(***************************************************************************)
(* Handlers run one at a time: each is an "async def" without an await     *)
(* (main.py:245, 267, 307, 323) whose upstream calls block, and the        *)
(* program is served by one process on one event loop (main.py:369-371),   *)
(* which runs a handler to its return before it starts the next.  Requests *)
(* that arrive together are therefore run as whole handlers in some order, *)
(* and Next takes the handlers in every order.                             *)
(***************************************************************************)
\* one world for each distinct result of the pass over Snapshots, and one
\* listing for each distinct result of the resolution over DocLists: a
\* handler reads its inputs through these two calls only
WorldReps ==
    {CHOOSE w \in Snapshots : AggregationPass(w) = p :
       p \in {AggregationPass(w) : w \in Snapshots}}
DocReps ==
    {CHOOSE d \in DocLists : resolve_doc_id(d, DocName) = r :
       r \in {resolve_doc_id(d, DocName) : d \in DocLists}}

Resolves(docs) ==
    ~resolve_doc_id(docs, DocName).fault /\ IsSet(resolve_doc_id(docs, DocName).id)

\* the worlds a call can read: the pass runs only once the document is
\* resolved and the aggregation cache field cc is unset
WorldsRead(cc, docs) ==
    IF Resolves(docs) /\ ~IsSet(cc) THEN WorldReps ELSE {PagesFaultWorld}

Init ==
    /\ coda_data_cache = None
    /\ formatted_data_cache = None
    /\ upstream = PagesFaultWorld
    /\ passResult = NoPass
    /\ last = NoResponse
    /\ fmtLog = {}

\* the response of a completed call with outcome o, with what the model
\* remembers of the call: warm (both fields were set when it started) and,
\* of the call before it, whether it was a successful refresh-cache,
\* whether it started warm and what it built
Response(handler, o) ==
    [handler |-> handler, status |-> o.status, cause |-> o.cause,
     body |-> o.body, color |-> o.color, context |-> o.context,
     calls |-> o.calls, built |-> o.built, summary |-> o.summary,
     warm |-> IsSet(coda_data_cache) /\ IsSet(formatted_data_cache),
     prevRefreshed |-> last.handler = "refresh" /\ last.status = HTTP_OK,
     prevWarm |-> last.warm,
     prevBuilt |-> last.built]

Ask ==
    \E docs \in DocReps : \E w \in WorldsRead(coda_data_cache, docs) :
      \E g \in EngineOutcomes :
        LET o == ask_question(coda_data_cache, formatted_data_cache, docs, w, g)
        IN  /\ coda_data_cache' = o.coda
            /\ formatted_data_cache' = o.fmt
            /\ last' = Response("ask", o)
            /\ UNCHANGED <<upstream, passResult, fmtLog>>

CliqAsk ==
    \E text \in CliqTexts : \E docs \in DocReps :
      \E w \in WorldsRead(coda_data_cache, docs) : \E g \in EngineOutcomes :
        LET o == cliq_webhook(coda_data_cache, formatted_data_cache, text,
                              docs, w, g)
        IN  /\ coda_data_cache' = o.coda
            /\ formatted_data_cache' = o.fmt
            /\ last' = Response("cliq", o)
            /\ UNCHANGED <<upstream, passResult, fmtLog>>

RefreshCache ==
    \E docs \in DocReps : \E w \in WorldsRead(None, docs) :
        LET o == refresh_cache(coda_data_cache, formatted_data_cache, docs, w)
        IN  /\ coda_data_cache' = o.coda
            /\ formatted_data_cache' = o.fmt
            /\ last' = Response("refresh", o)
            /\ UNCHANGED <<upstream, passResult, fmtLog>>

DataSummary ==
    \E docs \in DocReps : \E w \in WorldsRead(coda_data_cache, docs) :
        LET o == get_data_summary(coda_data_cache, formatted_data_cache, docs, w)
        IN  /\ coda_data_cache' = o.coda
            /\ formatted_data_cache' = o.fmt
            /\ last' = Response("summary", o)
            /\ UNCHANGED <<upstream, passResult, fmtLog>>

Next == Ask \/ CliqAsk \/ RefreshCache \/ DataSummary

Spec == Init /\ [][Next]_vars

(***************************************************************************)
(* Claims about the handlers run one at a time (Spec).                     *)
(***************************************************************************)
\* C1 as claimed: after any sequence of completed handler calls the two
\* cache fields are both unset or both set.
C1_BothOrNeither == IsSet(coda_data_cache) <=> IsSet(formatted_data_cache)

\* C1 as amended: the text field is set only while the aggregation field is
\* set, and then holds the rendering of the cached aggregation; a
\* successful refresh-cache, and a successful data-summary on an unset
\* cache, leave the aggregation set and the text as it was (unset).
C1_TextOnlyWithAggregation ==
    /\ IsSet(formatted_data_cache) =>
          /\ IsSet(coda_data_cache)
          /\ Val(formatted_data_cache) = Render(Val(coda_data_cache))
    /\ (last.handler = "refresh" /\ last.status = HTTP_OK) =>
          IsSet(coda_data_cache) /\ ~IsSet(formatted_data_cache)
    /\ (last.handler = "summary" /\ last.status = HTTP_OK /\ IsSet(last.built)) =>
          IsSet(coda_data_cache) /\ ~IsSet(formatted_data_cache)

\* C1 witness: a refresh of a cache that held text succeeded on a document
\* with data
C1_Witness ==
    /\ last.handler = "refresh" /\ last.status = HTTP_OK /\ last.warm
    /\ IsSet(coda_data_cache) /\ Val(coda_data_cache) # <<>>
    /\ ~IsSet(formatted_data_cache)

\* C3: in ask and data-summary a document name that resolves to nothing is
\* answered with a status other than the generic 500.
C3_NotFoundDistinctFrom500 ==
    (last.handler \in {"ask", "summary"} /\ last.cause = "not_found") =>
        last.status # HTTP_ERROR

\* C5: the first ask or webhook-ask after a successful refresh-cache hands
\* the engine the rendering of the aggregation that refresh built from the
\* workspace, not the text cached before it.
C5_ContextAfterRefresh ==
    (last.handler \in {"ask", "cliq"} /\ last.prevRefreshed
        /\ IsSet(last.context)) =>
        /\ IsSet(last.prevBuilt)
        /\ Val(last.context) = Render(Val(last.prevBuilt))

\* C5 witness: both fields were set, a refresh built an aggregation with
\* data, and the next ask reached the engine
C5_Witness ==
    /\ last.handler = "ask" /\ last.prevRefreshed /\ last.prevWarm
    /\ IsSet(last.context) /\ IsSet(last.prevBuilt)
    /\ Val(last.prevBuilt) # <<>>

\* C6 as claimed: with both fields set, an ask or webhook-ask contacts no
\* endpoint of the workspace client.
C6_WarmCallContactsNothing ==
    (last.handler \in {"ask", "cliq"} /\ last.warm) => last.calls = {}

\* C6 as amended: with both fields set, an ask or webhook-ask contacts the
\* documents endpoint at most (once, to resolve the document), runs no
\* pass, leaves both fields as they were and, when it reaches the engine,
\* hands it the cached text.
C6_WarmCallOnlyResolves ==
    (last.handler \in {"ask", "cliq"} /\ last.warm) =>
        /\ last.calls \subseteq {"docs"}
        /\ ~IsSet(last.built)
        /\ IsSet(coda_data_cache) /\ IsSet(formatted_data_cache)
        /\ IsSet(last.context) => last.context = formatted_data_cache

\* C6 witness: an ask on a warm cache reached the engine
C6_Witness ==
    /\ last.handler = "ask" /\ last.warm /\ IsSet(last.context)
    /\ last.calls = {"docs"}

IsPayload(r) == r.status = HTTP_OK /\ r.color \in {ErrorColor, SuccessColor}

\* C8 as claimed: webhook-ask always returns a {text, color} payload, with
\* the error color for every outcome but a produced answer.
C8_ErrorColorUnlessAnswer ==
    last.handler = "cliq" =>
        /\ IsPayload(last)
        /\ last.color = SuccessColor <=> last.body = "answer"

\* C8 as amended: webhook-ask always returns a {text, color} payload; the
\* color is the error color for empty text, document not found and any
\* fault of the workspace client or the aggregation, and the success color
\* whenever the answer engine was called, a fault of the engine included
\* (its error string is returned as the answer).
C8_SuccessColorOnceEngineCalled ==
    last.handler = "cliq" =>
        /\ IsPayload(last)
        /\ last.color = SuccessColor <=> IsSet(last.context)
        /\ last.cause \in {"empty_text", "not_found", "client_fault"} =>
               last.color = ErrorColor
        /\ last.cause \in {"none", "engine_fault"} => last.color = SuccessColor

\* C8 witness: the engine faulted and the payload carries the success color
C8_Witness ==
    /\ last.handler = "cliq" /\ last.cause = "engine_fault"
    /\ last.color = SuccessColor /\ last.body = "error_string"

\* C8 witness, the error side: a webhook-ask met a missing document
C8_WitnessNotFound ==
    last.handler = "cliq" /\ last.cause = "not_found" /\ last.color = ErrorColor

(***************************************************************************)
(* Direct calls of the formatter, with refresh-cache calls in between.     *)
(* fmtLog.arg is the list whose calls are observed, fmtLog.outs the texts  *)
(* the formatter returned for it.                                          *)
(***************************************************************************)
\* the aggregations a pass can build from the worlds of the handler runs
FmtInputs == {AggregationPass(w).data : w \in Snapshots}

InitFmt ==
    /\ coda_data_cache = None
    /\ formatted_data_cache = None
    /\ upstream = PagesFaultWorld
    /\ passResult = NoPass
    /\ last = NoResponse
    /\ fmtLog \in {[arg |-> L, outs |-> {}] : L \in FmtInputs}

\* format_data_for_gemini(L)
FormatCall ==
    \E L \in FmtInputs :
        LET r == format_data_for_gemini(formatted_data_cache, L)
        IN  /\ formatted_data_cache' = r.cache
            /\ fmtLog' = IF L = fmtLog.arg
                         THEN [fmtLog EXCEPT !.outs = @ \cup {r.text}]
                         ELSE fmtLog
            /\ UNCHANGED <<coda_data_cache, upstream, passResult, last>>

\* refresh-cache called between formatter calls; its response is not
\* observed here
RefreshBetween ==
    \E docs \in DocReps : \E w \in WorldsRead(None, docs) :
        LET o == refresh_cache(coda_data_cache, formatted_data_cache, docs, w)
        IN  /\ coda_data_cache' = o.coda
            /\ formatted_data_cache' = o.fmt
            /\ UNCHANGED <<upstream, passResult, last, fmtLog>>

NextFmt == FormatCall \/ RefreshBetween

SpecFmt == InitFmt /\ [][NextFmt]_vars

\* C7: every call of the formatter on the same list returns the same text,
\* whatever calls happened in between.
C7_SameListSameText == Cardinality(fmtLog.outs) <= 1

====
